---- MODULE Spec2Model ----
(***************************************************************************)
(* Model of the Platter menu scheduler (src/src/scheduler.rs): the        *)
(* conflict checker, the recurrence advancer, the event queue builder,    *)
(* the schedule executor and the scheduler loop, over a storage gateway   *)
(* holding schedules, presets and menu items.                             *)
(*                                                                         *)
(* Time is counted in ticks; TicksPerDay ticks make one day.  The clock   *)
(* is what Utc::now() returns.                                             *)
(***************************************************************************)
EXTENDS Integers, Sequences, FiniteSets, TLC

VARIABLES
    schedules,  \* storage: Vec<MenuSchedule>, in storage order
    items,      \* storage: Vec<MenuItem>, in storage order
    presets,    \* storage: Vec<MenuPreset>
    events,     \* run_scheduler: the BinaryHeap<ScheduledEvent>, its Vec in heap order
    clock,      \* the value Utc::now() returns
    pc,         \* position of run_scheduler / execute_schedule
    cur,        \* the schedule of the event popped last (execute_schedule's `schedule`)
    conflict,   \* result of the last has_schedule_conflict call (Option)
    lastlog,    \* outcome the scheduler logged last
    slept,      \* the loop has suspended since it last loaded the queue or dispatched
    next_start  \* what calculate_next_occurrence returned last (Option)

vars == <<schedules, items, presets, events, clock, pc, cur, conflict, lastlog, slept,
          next_start>>

----------------------------------------------------------------------------
(* Bounds of the model *)

TicksPerDay == 2
MaxTime == 3
MaxStart == 2
MaxExisting == 3
MaxConflictTime == 2
MaxNextStart == 800
MaxNextEnd == 2
MaxNow == 2
MaxEvents == 4
MaxEventTime == 2
MaxLoad == 3
MaxLoadTime == 2

(* Option<T> *)
None == <<>>
Some(x) == <<x>>

Min(a, b) == IF a <= b THEN a ELSE b
Max(a, b) == IF a >= b THEN a ELSE b

Range(seq) == { seq[i] : i \in 1..Len(seq) }

----------------------------------------------------------------------------
(* Data model: crate::storage types as used by the scheduler *)

ScheduleRecurrence == {"Daily", "Weekly", "Monthly", "Custom"}
ScheduleStatus == {"Pending", "Active", "Ended", "Conflicted"}

(* error_message: Option<String>; the strings the scheduler writes *)
MsgConflict(id) == Some(<<"Conflicts with schedule", id>>)
MsgAfterEnd == Some(<<"Next occurrence is after schedule end time">>)
MsgCannot == Some(<<"Cannot calculate next occurrence">>)
MsgStale == Some(<<"stale message">>)

MenuSchedule(id, preset, start, end, rec, st, msg, upd) ==
    [id |-> id, preset_id |-> preset, start_time |-> start, end_time |-> end,
     recurrence |-> rec, status |-> st, error_message |-> msg,
     created_at |-> 0, updated_at |-> upd]

NoSchedule == MenuSchedule(0, 0, 0, 0, "Custom", "Ended", None, 0)

----------------------------------------------------------------------------
(* Conflict checker: has_schedule_conflict *)

(* faulty variant of Overlaps: half-open windows, a boundary touch is no overlap *)
OverlapsStrict(schedule, existing) ==
    schedule.start_time < existing.end_time /\ schedule.end_time > existing.start_time

(* the time-overlap test of line 51 *)
Overlaps(schedule, existing) ==
    schedule.start_time <= existing.end_time /\ schedule.end_time >= existing.start_time

(* faulty variant of IsSelf: entries that are Ended or Conflicted are skipped
   as well *)
IsSelfOrDone(schedule, existing) ==
    existing.id = schedule.id \/ existing.status \in {"Ended", "Conflicted"}

(* faulty variant of IsSelf: no entry is skipped *)
IsSelfNever(schedule, existing) == FALSE

(* the self-skip test of line 46 *)
IsSelf(schedule, existing) == existing.id = schedule.id

(* the loop of has_schedule_conflict from index i on *)
RECURSIVE ConflictFrom(_, _, _)
ConflictFrom(schedule, existing_schedules, i) ==
    IF i > Len(existing_schedules) THEN None
    ELSE IF IsSelf(schedule, existing_schedules[i])
         THEN ConflictFrom(schedule, existing_schedules, i + 1)
    ELSE IF Overlaps(schedule, existing_schedules[i])
         THEN Some(existing_schedules[i])
    ELSE ConflictFrom(schedule, existing_schedules, i + 1)

(* faulty variant of HasScheduleConflict: the last overlapping entry is returned *)
RECURSIVE ConflictLastFrom(_, _, _)
ConflictLastFrom(schedule, existing_schedules, i) ==
    IF i < 1 THEN None
    ELSE IF IsSelf(schedule, existing_schedules[i])
         THEN ConflictLastFrom(schedule, existing_schedules, i - 1)
    ELSE IF Overlaps(schedule, existing_schedules[i])
         THEN Some(existing_schedules[i])
    ELSE ConflictLastFrom(schedule, existing_schedules, i - 1)

HasScheduleConflictLast(schedule, existing_schedules) ==
    ConflictLastFrom(schedule, existing_schedules, Len(existing_schedules))

HasScheduleConflict(schedule, existing_schedules) ==
    ConflictFrom(schedule, existing_schedules, 1)

----------------------------------------------------------------------------
(* Recurrence advancer: calculate_next_occurrence *)

Day == 1 * TicksPerDay
Week == 7 * TicksPerDay

(* the date of tick 0, at 00:00 UTC *)
Epoch == [y |-> 2023, m |-> 1, d |-> 15]

IsLeap(y) == (y % 4 = 0 /\ y % 100 # 0) \/ y % 400 = 0

DaysInMonth(y, m) ==
    IF m = 2 THEN (IF IsLeap(y) THEN 29 ELSE 28)
    ELSE IF m \in {4, 6, 9, 11} THEN 30 ELSE 31

FirstOfNextMonth(date) ==
    IF date.m = 12 THEN [y |-> date.y + 1, m |-> 1, d |-> 1]
    ELSE [y |-> date.y, m |-> date.m + 1, d |-> 1]

(* the date n days after date *)
RECURSIVE DateAfter(_, _)
DateAfter(date, n) ==
    IF date.d + n <= DaysInMonth(date.y, date.m) THEN [date EXCEPT !.d = date.d + n]
    ELSE DateAfter(FirstOfNextMonth(date), n - (DaysInMonth(date.y, date.m) - date.d + 1))

(* the number of days from date from to the later date to *)
RECURSIVE DaysBetween(_, _)
DaysBetween(from, to) ==
    IF from.y = to.y /\ from.m = to.m THEN to.d - from.d
    ELSE (DaysInMonth(from.y, from.m) - from.d + 1) + DaysBetween(FirstOfNextMonth(from), to)

(* DateTime::date_naive and DateTime::time *)
DateNaive(t) == DateAfter(Epoch, t \div TicksPerDay)
TimeOfDay(t) == t % TicksPerDay

(* NaiveDate::and_time(..).and_utc() *)
AndTime(date, tod) == DaysBetween(Epoch, date) * TicksPerDay + tod

(* faulty variant of CheckedAddMonth: the day is kept as it is, so that a day
   the next month does not have runs over into the month after *)
CheckedAddMonthOverflows(date) ==
    LET nm == FirstOfNextMonth(date)
    IN  Some([nm EXCEPT !.d = date.d])

(* NaiveDate::checked_add_months(Months::new(1)): the same day of the next
   month, clamped to that month's last day *)
CheckedAddMonth(date) ==
    LET nm == FirstOfNextMonth(date)
    IN  Some([nm EXCEPT !.d = Min(date.d, DaysInMonth(nm.y, nm.m))])

(* faulty variant of CalculateNextOccurrence: Weekly adds one day *)
CalculateNextOccurrenceWeeklyAsDaily(schedule, now) ==
    CASE schedule.recurrence = "Daily" -> Some(schedule.start_time + Day)
      [] schedule.recurrence = "Weekly" -> Some(schedule.start_time + Day)
      [] schedule.recurrence = "Monthly" ->
            Some(AndTime(CheckedAddMonth(DateNaive(schedule.start_time))[1],
                         TimeOfDay(schedule.start_time)))
      [] schedule.recurrence = "Custom" -> None

(* faulty variant of CalculateNextOccurrence: Custom repeats every day *)
CalculateNextOccurrenceCustomDaily(schedule, now) ==
    CASE schedule.recurrence = "Daily" -> Some(schedule.start_time + Day)
      [] schedule.recurrence = "Weekly" -> Some(schedule.start_time + Week)
      [] schedule.recurrence = "Monthly" ->
            Some(AndTime(CheckedAddMonth(DateNaive(schedule.start_time))[1],
                         TimeOfDay(schedule.start_time)))
      [] schedule.recurrence = "Custom" -> Some(schedule.start_time + Day)

(* faulty variant of CalculateNextOccurrence: Daily and Weekly count from now *)
CalculateNextOccurrenceFromNow(schedule, now) ==
    CASE schedule.recurrence = "Daily" -> Some(now + Day)
      [] schedule.recurrence = "Weekly" -> Some(now + Week)
      [] schedule.recurrence = "Monthly" ->
            Some(AndTime(CheckedAddMonth(DateNaive(schedule.start_time))[1],
                         TimeOfDay(schedule.start_time)))
      [] schedule.recurrence = "Custom" -> None

CalculateNextOccurrence(schedule, now) ==
    CASE schedule.recurrence = "Daily" -> Some(schedule.start_time + Day)
      [] schedule.recurrence = "Weekly" -> Some(schedule.start_time + Week)
      [] schedule.recurrence = "Monthly" ->
            LET next_month == CheckedAddMonth(DateNaive(schedule.start_time))
            IN  IF next_month = None THEN None
                ELSE Some(AndTime(next_month[1], TimeOfDay(schedule.start_time)))
      [] schedule.recurrence = "Custom" -> None

----------------------------------------------------------------------------
(* Event queue: ScheduledEvent and its ordering *)

ScheduledEvent(schedule, execution_time) ==
    [schedule |-> schedule, execution_time |-> execution_time]

(* DateTime::cmp *)
CmpTime(a, b) == IF a < b THEN "Less" ELSE IF a = b THEN "Equal" ELSE "Greater"

(* faulty variant of Cmp: the comparison is not reversed (a max-heap on time) *)
CmpNotReversed(self, other) == CmpTime(self.execution_time, other.execution_time)

(* Ord for ScheduledEvent: reversed, so that BinaryHeap is a min-heap *)
Cmp(self, other) == CmpTime(other.execution_time, self.execution_time)

(* BinaryHeap<ScheduledEvent>: the Vec `data` in heap order, root first.
   sift_up: the element at pos moves up while it is greater than its parent *)
RECURSIVE SiftUp(_, _)
SiftUp(data, pos) ==
    IF pos <= 1 THEN data
    ELSE LET parent == pos \div 2
         IN  IF Cmp(data[pos], data[parent]) # "Greater" THEN data
             ELSE SiftUp([data EXCEPT ![pos] = data[parent], ![parent] = data[pos]], parent)

(* BinaryHeap::push *)
Push(data, item) == SiftUp(Append(data, item), Len(data) + 1)

(* BinaryHeap::peek *)
Peek(data) == IF data = <<>> THEN None ELSE Some(data[1])

(* sift_down_to_bottom: the hole at pos moves down to a leaf, taking the
   greater child each time; the result is the Vec and the hole's last place *)
RECURSIVE HoleDown(_, _, _)
HoleDown(data, pos, elem) ==
    LET left == 2 * pos
    IN  IF left + 1 <= Len(data)
        THEN LET child == IF Cmp(data[left], data[left + 1]) # "Greater"
                          THEN left + 1 ELSE left
             IN  HoleDown([data EXCEPT ![pos] = data[child]], child, elem)
        ELSE IF left = Len(data)
        THEN << [data EXCEPT ![pos] = data[left], ![left] = elem], left >>
        ELSE << [data EXCEPT ![pos] = elem], pos >>

(* BinaryHeap::pop: what is left of the heap when the root has been taken *)
PopRest(data) ==
    LET n == Len(data)
        rest == SubSeq(data, 1, n - 1)
    IN  IF rest = <<>> THEN <<>>
        ELSE LET down == HoleDown(rest, 1, data[n])
             IN  SiftUp(down[1], down[2])

(* faulty variant of EventFor: a schedule of any other status is queued as
   due now *)
EventForEveryStatus(schedule, now) ==
    CASE schedule.status = "Pending" ->
            IF schedule.start_time >= now
            THEN Some(ScheduledEvent(schedule, schedule.start_time))
            ELSE Some(ScheduledEvent(schedule, now))
      [] schedule.status = "Active" -> Some(ScheduledEvent(schedule, schedule.end_time))
      [] OTHER -> Some(ScheduledEvent(schedule, now))

(* faulty variant of EventFor: a Pending schedule is queued at its
   start_time also when that is in the past *)
EventForAtStart(schedule, now) ==
    CASE schedule.status = "Pending" -> Some(ScheduledEvent(schedule, schedule.start_time))
      [] schedule.status = "Active" -> Some(ScheduledEvent(schedule, schedule.end_time))
      [] OTHER -> None

(* the event load_scheduled_events pushes for a schedule, if any *)
EventFor(schedule, now) ==
    CASE schedule.status = "Pending" ->
            IF schedule.start_time >= now
            THEN Some(ScheduledEvent(schedule, schedule.start_time))
            ELSE Some(ScheduledEvent(schedule, now))
      [] schedule.status = "Active" -> Some(ScheduledEvent(schedule, schedule.end_time))
      [] OTHER -> None

(* the heap load_scheduled_events has built after the first n schedules *)
RECURSIVE LoadFirst(_, _, _)
LoadFirst(scheds, now, n) ==
    IF n = 0 THEN <<>>
    ELSE LET before == LoadFirst(scheds, now, n - 1)
             event == EventFor(scheds[n], now)
         IN  IF event = None THEN before ELSE Push(before, event[1])

(* the heap load_scheduled_events builds from the schedules it read *)
LoadScheduledEvents(scheds, now) == LoadFirst(scheds, now, Len(scheds))

----------------------------------------------------------------------------
(* Storage gateway (crate::storage::JsonStorage): per-record replace *)

UpdateMenuSchedule(scheds, id, schedule) ==
    [i \in 1..Len(scheds) |-> IF scheds[i].id = id THEN schedule ELSE scheds[i]]

UpdateMenuItem(its, id, item) ==
    [i \in 1..Len(its) |-> IF its[i].id = id THEN item ELSE its[i]]

(* the stored schedule with the given id *)
StoredIn(scheds, id) == CHOOSE s \in Range(scheds) : s.id = id

Stored(id) == StoredIn(schedules, id)

----------------------------------------------------------------------------
(* Schedule executor: the pieces of execute_schedule and of
   handle_ended_active_schedule *)

(* faulty variant of ConflictedSchedule: the conflicting schedule is not named *)
ConflictedScheduleNoMsg(schedule, conflicting_schedule) ==
    [schedule EXCEPT !.status = "Conflicted"]

(* lines 177-182: the record written when a conflict is found *)
ConflictedSchedule(schedule, conflicting_schedule) ==
    [schedule EXCEPT !.status = "Conflicted",
                     !.error_message = MsgConflict(conflicting_schedule.id)]

(* lines 198-199: the record written before the preset is applied *)
ActivatedSchedule(schedule, now) ==
    [schedule EXCEPT !.status = "Active", !.updated_at = now]

(* lines 204-206: presets.into_iter().find(|p| p.id == schedule.preset_id) *)
RECURSIVE FindPresetFrom(_, _, _)
FindPresetFrom(ps, id, i) ==
    IF i > Len(ps) THEN None
    ELSE IF ps[i].id = id THEN Some(ps[i])
    ELSE FindPresetFrom(ps, id, i + 1)

FindPreset(ps, id) == FindPresetFrom(ps, id, 1)

(* faulty variant of ItemWithPreset: items outside the preset are left alone *)
ItemWithPresetPatch(item, preset) ==
    [item EXCEPT !.is_available = item.is_available \/ item.id \in preset.menu_item_ids]

(* line 221 *)
ItemWithPreset(item, preset) ==
    [item EXCEPT !.is_available = item.id \in preset.menu_item_ids]

(* lines 220-223 after the first k items have been written *)
RECURSIVE ItemsUpdated(_, _, _)
ItemsUpdated(its, preset, k) ==
    IF k = 0 THEN its
    ELSE LET before == ItemsUpdated(its, preset, k - 1)
         IN  UpdateMenuItem(before, its[k].id, ItemWithPreset(its[k], preset))

(* faulty variant of FinishedSchedule: the schedule is left Active while its
   window is open *)
FinishedScheduleStaysActive(schedule, now) ==
    IF schedule.end_time <= now
    THEN [schedule EXCEPT !.status = "Ended", !.updated_at = now, !.error_message = None]
    ELSE schedule

(* faulty variant of FinishedSchedule: a recurring schedule goes back to
   Pending with its start_time as it was *)
FinishedScheduleKeepsStart(schedule, now) ==
    IF schedule.end_time <= now
    THEN [schedule EXCEPT !.status = "Ended", !.updated_at = now, !.error_message = None]
    ELSE IF schedule.recurrence \in {"Daily", "Weekly", "Monthly"}
    THEN LET next == CalculateNextOccurrence(schedule, now)
         IN  IF next # None /\ next[1] <= schedule.end_time
             THEN [schedule EXCEPT !.status = "Pending", !.updated_at = now,
                                   !.error_message = None]
             ELSE [schedule EXCEPT !.status = "Ended", !.updated_at = now,
                                   !.error_message = MsgAfterEnd]
    ELSE [schedule EXCEPT !.status = "Ended", !.updated_at = now, !.error_message = None]

(* faulty variant of FinishedSchedule: a recurring schedule whose next
   occurrence is after end_time is Ended without a message *)
FinishedScheduleNoMsg(schedule, now) ==
    IF schedule.end_time <= now
    THEN [schedule EXCEPT !.status = "Ended", !.updated_at = now, !.error_message = None]
    ELSE IF schedule.recurrence \in {"Daily", "Weekly", "Monthly"}
    THEN LET next == CalculateNextOccurrence(schedule, now)
         IN  IF next # None /\ next[1] <= schedule.end_time
             THEN [schedule EXCEPT !.start_time = next[1], !.status = "Pending",
                                   !.updated_at = now, !.error_message = None]
             ELSE [schedule EXCEPT !.status = "Ended", !.updated_at = now,
                                   !.error_message = None]
    ELSE [schedule EXCEPT !.status = "Ended", !.updated_at = now, !.error_message = None]

(* faulty variant of FinishedSchedule: end_time is not compared with now, a
   recurring schedule whose window is over is advanced when the next
   occurrence is not after end_time *)
FinishedScheduleNoEndCheck(schedule, now) ==
    IF schedule.recurrence \in {"Daily", "Weekly", "Monthly"}
    THEN LET next == CalculateNextOccurrence(schedule, now)
         IN  IF next # None /\ next[1] <= schedule.end_time
             THEN [schedule EXCEPT !.start_time = next[1], !.status = "Pending",
                                   !.updated_at = now, !.error_message = None]
             ELSE [schedule EXCEPT !.status = "Ended", !.updated_at = now,
                                   !.error_message = MsgAfterEnd]
    ELSE [schedule EXCEPT !.status = "Ended", !.updated_at = now, !.error_message = None]

(* faulty variant of FinishedSchedule: the window of a recurring schedule is
   shifted as a whole, end_time moves with start_time *)
FinishedScheduleShiftsWindow(schedule, now) ==
    IF schedule.end_time <= now
    THEN [schedule EXCEPT !.status = "Ended", !.updated_at = now, !.error_message = None]
    ELSE IF schedule.recurrence \in {"Daily", "Weekly", "Monthly"}
    THEN LET next == CalculateNextOccurrence(schedule, now)
         IN  IF next # None /\ next[1] <= schedule.end_time
             THEN [schedule EXCEPT !.start_time = next[1],
                                   !.end_time = schedule.end_time
                                                  + (next[1] - schedule.start_time),
                                   !.status = "Pending",
                                   !.updated_at = now, !.error_message = None]
             ELSE [schedule EXCEPT !.status = "Ended", !.updated_at = now,
                                   !.error_message = MsgAfterEnd]
    ELSE [schedule EXCEPT !.status = "Ended", !.updated_at = now, !.error_message = None]

(* faulty variant of FinishedSchedule: a recurring schedule is advanced
   whether or not the next occurrence is after end_time *)
FinishedScheduleAlwaysAdvances(schedule, now) ==
    IF schedule.end_time <= now
    THEN [schedule EXCEPT !.status = "Ended", !.updated_at = now, !.error_message = None]
    ELSE IF schedule.recurrence \in {"Daily", "Weekly", "Monthly"}
    THEN [schedule EXCEPT !.start_time = CalculateNextOccurrence(schedule, now)[1],
                          !.status = "Pending", !.updated_at = now,
                          !.error_message = None]
    ELSE [schedule EXCEPT !.status = "Ended", !.updated_at = now, !.error_message = None]

(* lines 226-269: the record written after the preset has been applied *)
FinishedSchedule(schedule, now) ==
    IF schedule.end_time <= now
    THEN [schedule EXCEPT !.status = "Ended", !.updated_at = now, !.error_message = None]
    ELSE IF schedule.recurrence \in {"Daily", "Weekly", "Monthly"}
    THEN LET next == CalculateNextOccurrence(schedule, now)
         IN  IF next # None
             THEN IF next[1] <= schedule.end_time
                  THEN [schedule EXCEPT !.start_time = next[1], !.status = "Pending",
                                        !.updated_at = now, !.error_message = None]
                  ELSE [schedule EXCEPT !.status = "Ended", !.updated_at = now,
                                        !.error_message = MsgAfterEnd]
             ELSE [schedule EXCEPT !.status = "Ended", !.updated_at = now,
                                   !.error_message = MsgCannot]
    ELSE [schedule EXCEPT !.status = "Ended", !.updated_at = now, !.error_message = None]

(* lines 226-241: the result of the call of calculate_next_occurrence that
   execute_schedule makes, None when it makes none *)
NextOccurrenceCall(schedule, now) ==
    IF schedule.end_time > now /\ schedule.recurrence \in {"Daily", "Weekly", "Monthly"}
    THEN CalculateNextOccurrence(schedule, now)
    ELSE None

(* faulty variant of EndedSchedule: a recurring schedule is advanced *)
EndedScheduleAdvances(schedule, now) ==
    IF schedule.recurrence = "Custom"
    THEN [schedule EXCEPT !.status = "Ended", !.updated_at = now, !.error_message = None]
    ELSE LET next == CalculateNextOccurrence(schedule, now)
         IN  IF next # None /\ next[1] <= schedule.end_time
             THEN [schedule EXCEPT !.start_time = next[1], !.status = "Pending",
                                   !.updated_at = now, !.error_message = None]
             ELSE [schedule EXCEPT !.status = "Ended", !.updated_at = now,
                                   !.error_message = MsgAfterEnd]

(* faulty variant of EndedSchedule: the message is kept *)
EndedScheduleKeepsMsg(schedule, now) ==
    [schedule EXCEPT !.status = "Ended", !.updated_at = now]

(* lines 287-290: the record handle_ended_active_schedule writes *)
EndedSchedule(schedule, now) ==
    [schedule EXCEPT !.status = "Ended", !.updated_at = now, !.error_message = None]

----------------------------------------------------------------------------
(* Initial states: the storage at start-up, before run_scheduler's first load *)

MissingPreset == 3

InitPresets ==
    << [id |-> 1, menu_item_ids |-> {1}], [id |-> 2, menu_item_ids |-> {1, 2}] >>

InitItems ==
    << [id |-> 1, is_available |-> FALSE], [id |-> 2, is_available |-> TRUE] >>

(* the ids of the schedules a start-up storage may hold, in storage order *)
ScheduleIds == {1, 2}

(* the schedules a start-up storage may hold under id: the first schedule
   takes every recurrence, an existing or a missing preset and possibly a
   message left by an earlier edit; the others are one-shot schedules that
   vary in their window *)
InitSchedules(id) ==
    IF id = 1
    THEN { MenuSchedule(id, p, s, e, r, "Pending", m, 0) :
             p \in {1, MissingPreset}, s \in 0..MaxStart, e \in 1..MaxTime,
             r \in ScheduleRecurrence, m \in {None, MsgStale} }
    ELSE { MenuSchedule(id, 2, s, e, "Custom", "Pending", None, 0) :
             s \in 0..MaxStart, e \in 1..MaxTime }

Init ==
    /\ \E n \in 0..Cardinality(ScheduleIds) :
         \E f \in [1..n -> UNION { InitSchedules(id) : id \in ScheduleIds }] :
            /\ \A i \in 1..n : f[i].id = i /\ f[i].start_time < f[i].end_time
            /\ schedules = f
    /\ items = InitItems
    /\ presets = InitPresets
    /\ events = <<>>
    /\ clock = 0
    /\ pc = "start"
    /\ cur = NoSchedule
    /\ conflict = None
    /\ lastlog = "start"
    /\ slept = FALSE
    /\ next_start = None

----------------------------------------------------------------------------
(* The scheduler loop: run_scheduler *)

(* time passes *)
Tick ==
    /\ clock < MaxTime
    /\ clock' = clock + 1
    /\ UNCHANGED <<schedules, items, presets, events, pc, cur, conflict, lastlog, slept,
                   next_start>>

(* load_scheduled_events, at lines 72, 94 and 110 *)
Reload ==
    /\ pc \in {"start", "reload"}
    /\ \/ /\ events' = LoadScheduledEvents(schedules, clock)
          /\ UNCHANGED lastlog
       \/ /\ events' = <<>>                    \* get_menu_schedules failed
          /\ lastlog' = "load_failed"
    /\ pc' = "loop"
    /\ slept' = FALSE
    /\ UNCHANGED <<schedules, items, presets, clock, cur, conflict, next_start>>

(* faulty variant of IdleWait: run_scheduler returns when nothing is queued *)
IdleWaitReturns ==
    /\ pc = "loop"
    /\ events = <<>>
    /\ pc' = "returned"
    /\ slept' = FALSE
    /\ UNCHANGED <<schedules, items, presets, events, clock, cur, conflict, lastlog,
                   next_start>>

(* faulty variant of IdleWait: the queue is loaded again at once *)
IdleWaitNoSleep ==
    /\ pc = "loop"
    /\ events = <<>>
    /\ pc' = "reload"
    /\ slept' = FALSE
    /\ UNCHANGED <<schedules, items, presets, events, clock, cur, conflict, lastlog,
                   next_start>>

(* lines 104-107: nothing queued, sleep one second, then load again *)
IdleWait ==
    /\ pc = "loop"
    /\ events = <<>>
    /\ pc' = "reload"
    /\ slept' = TRUE
    /\ UNCHANGED <<schedules, items, presets, events, clock, cur, conflict, lastlog,
                   next_start>>

(* faulty variant of SleepDuration: a fixed polling interval of one tick *)
SleepDurationPolls(event, now) == Min(Max(event.execution_time - now, 0), 1)

(* lines 97-99: the duration of the sleep until the head event *)
SleepDuration(event, now) == Max(event.execution_time - now, 0)

(* lines 95-103: the head event is not due, sleep until it is *)
SleepUntilDue ==
    /\ pc = "loop"
    /\ Peek(events) # None
    /\ LET event == Peek(events)[1]
       IN
         /\ ~(event.execution_time <= clock)
         /\ clock + SleepDuration(event, clock) <= MaxTime
         /\ clock' = clock + SleepDuration(event, clock)
    /\ slept' = TRUE
    /\ UNCHANGED <<schedules, items, presets, events, pc, cur, conflict, lastlog, next_start>>

(* faulty variant of HandleEndedActiveSchedule: the loop goes on with the
   queue it has *)
HandleEndedActiveScheduleNoReload ==
    /\ pc = "loop"
    /\ Peek(events) # None
    /\ LET event == Peek(events)[1]
       IN
         /\ event.execution_time <= clock
         /\ event.schedule.status = "Active"
         /\ events' = PopRest(events)
         /\ cur' = event.schedule
         /\ \/ /\ schedules' = UpdateMenuSchedule(schedules, event.schedule.id,
                                                  EndedSchedule(event.schedule, clock))
               /\ lastlog' = "ended"
            \/ /\ UNCHANGED schedules
               /\ lastlog' = "ended_update_failed"
    /\ pc' = "loop"
    /\ slept' = FALSE
    /\ UNCHANGED <<items, presets, clock, conflict, next_start>>

(* faulty variant of HandleEndedActiveSchedule: the items are made
   unavailable when the schedule ends *)
HandleEndedActiveScheduleClearsItems ==
    /\ pc = "loop"
    /\ Peek(events) # None
    /\ LET event == Peek(events)[1]
       IN
         /\ event.execution_time <= clock
         /\ event.schedule.status = "Active"
         /\ events' = PopRest(events)
         /\ cur' = event.schedule
         /\ \/ /\ schedules' = UpdateMenuSchedule(schedules, event.schedule.id,
                                                  EndedSchedule(event.schedule, clock))
               /\ lastlog' = "ended"
            \/ /\ UNCHANGED schedules
               /\ lastlog' = "ended_update_failed"
    /\ items' = [k \in 1..Len(items) |-> [items[k] EXCEPT !.is_available = FALSE]]
    /\ pc' = "reload"
    /\ slept' = FALSE
    /\ UNCHANGED <<presets, clock, conflict, next_start>>

(* lines 79-85 and 282-294: the head event is due and its schedule is Active *)
HandleEndedActiveSchedule ==
    /\ pc = "loop"
    /\ Peek(events) # None
    /\ LET event == Peek(events)[1]
       IN
         /\ event.execution_time <= clock
         /\ event.schedule.status = "Active"
         /\ events' = PopRest(events)
         /\ cur' = event.schedule
         /\ \/ /\ schedules' = UpdateMenuSchedule(schedules, event.schedule.id,
                                                  EndedSchedule(event.schedule, clock))
               /\ lastlog' = "ended"
            \/ /\ UNCHANGED schedules           \* update_menu_schedule failed
               /\ lastlog' = "ended_update_failed"
    /\ pc' = "reload"
    /\ slept' = FALSE
    /\ UNCHANGED <<items, presets, clock, conflict, next_start>>

(* faulty variant of AllSchedules: the schedules of the events that were
   queued *)
AllSchedulesQueued == [k \in 1..Len(events) |-> events[k].schedule]

(* line 168: the schedules execute_schedule reads for the conflict check *)
AllSchedules == schedules

(* lines 79-90 and 167-200: the head event is due and its schedule is not
   Active: execute_schedule up to the write of the Active status *)
ExecuteSchedule ==
    /\ pc = "loop"
    /\ Peek(events) # None
    /\ LET event == Peek(events)[1]
       IN
         /\ event.execution_time <= clock
         /\ event.schedule.status # "Active"
         /\ events' = PopRest(events)
         /\ \/ /\ UNCHANGED <<schedules, conflict>>   \* get_menu_schedules failed
               /\ cur' = event.schedule
               /\ lastlog' = "execute_failed"
               /\ pc' = "reload"
            \/ /\ conflict' = HasScheduleConflict(event.schedule, AllSchedules)
               /\ IF conflict' # None
                  THEN /\ pc' = "reload"
                       /\ cur' = event.schedule
                       /\ \/ /\ schedules' = UpdateMenuSchedule(schedules, event.schedule.id,
                                       ConflictedSchedule(event.schedule, conflict'[1]))
                             /\ lastlog' = "conflict"
                          \/ /\ UNCHANGED schedules   \* update_menu_schedule failed
                             /\ lastlog' = "conflict_update_failed"
                  ELSE \/ /\ schedules' = UpdateMenuSchedule(schedules, event.schedule.id,
                                       ActivatedSchedule(event.schedule, clock))
                          /\ cur' = ActivatedSchedule(event.schedule, clock)
                          /\ lastlog' = "executing"
                          /\ pc' = "apply"
                       \/ /\ UNCHANGED schedules      \* update_menu_schedule failed
                          /\ cur' = ActivatedSchedule(event.schedule, clock)
                          /\ lastlog' = "execute_failed"
                          /\ pc' = "reload"
    /\ slept' = FALSE
    /\ next_start' = None
    /\ UNCHANGED <<items, presets, clock>>

(* lines 202-278: execute_schedule from the preset lookup to the final write *)
ExecuteApply ==
    /\ pc = "apply"
    /\ pc' = "reload"
    /\ LET preset == FindPreset(presets, cur.preset_id)
       IN  \/ /\ lastlog' = "execute_failed"    \* get_menu_presets or get_menu_items failed
              /\ UNCHANGED <<schedules, items, cur, next_start>>
           \/ /\ preset = None                  \* no preset with schedule.preset_id
              /\ lastlog' = "execute_failed"
              /\ UNCHANGED <<schedules, items, cur, next_start>>
           \/ /\ preset # None                  \* update_menu_item failed at item k
              /\ \E k \in 1..Len(items) :
                    items' = ItemsUpdated(items, preset[1], k - 1)
              /\ lastlog' = "execute_failed"
              /\ UNCHANGED <<schedules, cur, next_start>>
           \/ /\ preset # None
              /\ items' = ItemsUpdated(items, preset[1], Len(items))
              /\ cur' = FinishedSchedule(cur, clock)
              /\ next_start' = NextOccurrenceCall(cur, clock)
              /\ \/ /\ schedules' = UpdateMenuSchedule(schedules, cur.id, cur')
                    /\ lastlog' = "executed"
                 \/ /\ UNCHANGED schedules      \* update_menu_schedule failed
                    /\ lastlog' = "execute_failed"
    /\ UNCHANGED <<presets, events, clock, conflict, slept>>

Next ==
    \/ Tick
    \/ Reload
    \/ IdleWait
    \/ SleepUntilDue
    \/ HandleEndedActiveSchedule
    \/ ExecuteSchedule
    \/ ExecuteApply

Spec == Init /\ [][Next]_vars

(* the steps of the task that run_scheduler is: the runtime keeps running
   the task, every sleep and every storage call returns *)
Loop ==
    \/ Reload
    \/ IdleWait
    \/ SleepUntilDue
    \/ HandleEndedActiveSchedule
    \/ ExecuteSchedule
    \/ ExecuteApply

SpecLive == Init /\ [][Next]_vars /\ WF_vars(Loop)

----------------------------------------------------------------------------
(* Another writer: the storage is shared with the rest of the application,
   which creates and edits schedules at any moment *)

(* a schedule is created: Pending, one-shot, with a window that starts now
   or later *)
ExternalCreate ==
    /\ Len(schedules) < Cardinality(ScheduleIds)
    /\ \E s \in InitSchedules(Cardinality(ScheduleIds)) :
          /\ s.start_time < s.end_time
          /\ s.start_time >= clock
          /\ schedules' = Append(schedules, [s EXCEPT !.id = Len(schedules) + 1,
                                                       !.created_at = clock,
                                                       !.updated_at = clock])
    /\ UNCHANGED <<items, presets, events, clock, pc, cur, conflict, lastlog, slept,
                   next_start>>

(* a stored schedule that is Pending is edited: it is set to Ended *)
ExternalEdit ==
    /\ \E i \in 1..Len(schedules) :
          /\ schedules[i].status = "Pending"
          /\ schedules' = [schedules EXCEPT ![i].status = "Ended",
                                            ![i].updated_at = clock]
    /\ UNCHANGED <<items, presets, events, clock, pc, cur, conflict, lastlog, slept,
                   next_start>>

NextExt ==
    \/ Next
    \/ ExternalCreate
    \/ ExternalEdit

(* the storage at start-up: empty, or one schedule with an existing preset
   and no message *)
InitExt ==
    /\ \E n \in 0..1 :
         \E f \in [1..n -> { s \in InitSchedules(1) :
                               /\ s.preset_id # MissingPreset /\ s.error_message = None
                               /\ s.recurrence \in {"Custom", "Daily"} }] :
            /\ \A i \in 1..n : f[i].start_time < f[i].end_time
            /\ schedules = f
    /\ items = InitItems
    /\ presets = InitPresets
    /\ events = <<>>
    /\ clock = 0
    /\ pc = "start"
    /\ cur = NoSchedule
    /\ conflict = None
    /\ lastlog = "start"
    /\ slept = FALSE
    /\ next_start = None

SpecExt == InitExt /\ [][NextExt]_vars

----------------------------------------------------------------------------
(* has_schedule_conflict as a pure function: a candidate and a slice of
   existing schedules drawn from bounded sets, and one call *)

ConflictInputs ==
    { MenuSchedule(id, 1, s, e, "Custom", "Pending", None, 0) :
        id \in 1..2, s \in 0..MaxConflictTime, e \in 0..MaxConflictTime }

InitConflict ==
    /\ cur \in { c \in ConflictInputs : c.id = 1 /\ c.start_time <= c.end_time }
    /\ \E n \in 0..MaxExisting :
         schedules \in [1..n -> { x \in ConflictInputs : x.start_time <= x.end_time }]
    /\ items = InitItems
    /\ presets = InitPresets
    /\ events = <<>>
    /\ clock = 0
    /\ pc = "conflict_call"
    /\ conflict = None
    /\ lastlog = "start"
    /\ slept = FALSE
    /\ next_start = None

CallHasScheduleConflict ==
    /\ pc = "conflict_call"
    /\ conflict' = HasScheduleConflict(cur, schedules)
    /\ pc' = "conflict_done"
    /\ UNCHANGED <<schedules, items, presets, events, clock, cur, lastlog, slept,
                   next_start>>

NextConflict == CallHasScheduleConflict

SpecConflict == InitConflict /\ [][NextConflict]_vars

(* the indices of the entries of the slice that are not the candidate and
   whose closed window meets the candidate's *)
OverlappingOthers ==
    { i \in 1..Len(schedules) :
        /\ schedules[i].id # cur.id
        /\ cur.start_time <= schedules[i].end_time
        /\ cur.end_time >= schedules[i].start_time }

(* C1: for a candidate A and a slice [B] with B.id # A.id, the call returns
   Some(B) exactly when A.start_time <= B.end_time and A.end_time >=
   B.start_time, and None otherwise; windows touching at one instant conflict *)
C1_ClosedOverlap ==
    (pc = "conflict_done" /\ Len(schedules) = 1 /\ schedules[1].id # cur.id) =>
        IF cur.start_time <= schedules[1].end_time /\ cur.end_time >= schedules[1].start_time
        THEN conflict = Some(schedules[1])
        ELSE conflict = None

C1_Witness ==
    /\ pc = "conflict_done" /\ Len(schedules) = 1 /\ schedules[1].id # cur.id
    /\ cur.end_time = schedules[1].start_time
    /\ cur.start_time < cur.end_time
    /\ conflict = Some(schedules[1])

(* C2: the call never returns an entry whose id is the candidate's, so a
   slice holding only entries with the candidate's id gives None, whatever
   their windows *)
C2_SelfExcluded ==
    pc = "conflict_done" =>
        /\ conflict # None => conflict[1].id # cur.id
        /\ (\A i \in 1..Len(schedules) : schedules[i].id = cur.id) => conflict = None

C2_Witness ==
    /\ pc = "conflict_done" /\ Len(schedules) = 1 /\ schedules[1].id = cur.id
    /\ schedules[1] # cur
    /\ cur.start_time <= schedules[1].end_time /\ cur.end_time >= schedules[1].start_time
    /\ conflict = None

(* C3: the call returns the overlapping entry of lowest index among those
   that are not the candidate, and None when there is none *)
C3_FirstInOrder ==
    pc = "conflict_done" =>
        IF OverlappingOthers = {} THEN conflict = None
        ELSE \E k \in OverlappingOthers :
                /\ \A j \in OverlappingOthers : k <= j
                /\ conflict = Some(schedules[k])

C3_Witness ==
    /\ pc = "conflict_done"
    /\ \E k, j \in OverlappingOthers : k < j /\ schedules[k] # schedules[j]
    /\ \E k \in OverlappingOthers : k > 1 /\ conflict = Some(schedules[k])

----------------------------------------------------------------------------
(* Steps of the loop, as seen from a pair of states *)

(* the event popped by a dispatch *)
Popped == events[1]

(* a step of ExecuteSchedule: execute_schedule was called with cur' *)
IsExecuteStep ==
    /\ pc = "loop" /\ events' # events
    /\ lastlog' \in {"execute_failed", "conflict", "conflict_update_failed", "executing"}

(* a step of HandleEndedActiveSchedule, called with cur' *)
IsEndedStep ==
    /\ pc = "loop" /\ events' # events
    /\ lastlog' \in {"ended", "ended_update_failed"}

(* a step of ExecuteApply that ran to the end of execute_schedule *)
IsExecutedStep == pc = "apply" /\ lastlog' = "executed"

(* the closed windows of two schedules meet *)
WindowsMeet(a, b) == a.start_time <= b.end_time /\ a.end_time >= b.start_time

(* the item ids of the stored presets with the given id *)
PresetItemIds(id) == UNION { p.menu_item_ids : p \in { q \in Range(presets) : q.id = id } }

ActiveSchedules == { i \in 1..Len(schedules) : schedules[i].status = "Active" }

Recurring == {"Daily", "Weekly", "Monthly"}

----------------------------------------------------------------------------
(* C4: when a Pending schedule is dispatched and the schedules read from
   storage hold another schedule whose window meets its window, and the
   storage calls succeed, the stored schedule becomes Conflicted with a
   message naming an overlapping schedule's id, no item changes, no other
   schedule changes and the execution does not go on to apply the preset *)
C4_ConflictedNotExecuted ==
    [][ ( /\ IsExecuteStep
          /\ lastlog' \notin {"execute_failed", "conflict_update_failed"}
          /\ \E i \in 1..Len(schedules) :
                schedules[i].id # cur'.id /\ WindowsMeet(cur', schedules[i]) )
        => /\ StoredIn(schedules', cur'.id).status = "Conflicted"
           /\ \E i \in 1..Len(schedules) :
                /\ schedules[i].id # cur'.id /\ WindowsMeet(cur', schedules[i])
                /\ StoredIn(schedules', cur'.id).error_message = MsgConflict(schedules[i].id)
           /\ \A j \in 1..Len(schedules) :
                schedules[j].id # cur'.id => schedules'[j] = schedules[j]
           /\ items' = items
           /\ pc' # "apply"
           /\ ActiveSchedules' = ActiveSchedules ]_vars

C4_Witness ==
    /\ lastlog = "conflict" /\ pc = "reload"
    /\ cur.status = "Pending"
    /\ Stored(cur.id).status = "Conflicted"
    /\ conflict # None /\ conflict[1].id # cur.id
    /\ Stored(cur.id).error_message = MsgConflict(conflict[1].id)

(* C5: after an execution in which every storage call succeeded, every item
   is available exactly when its id is in the preset's item-id set *)
C5_FullOverwrite ==
    lastlog = "executed" =>
        /\ Len(items) = Len(InitItems)
        /\ \A i \in 1..Len(items) :
              /\ items[i].id = InitItems[i].id
              /\ items[i].is_available = (items[i].id \in PresetItemIds(cur.preset_id))

C5_Witness ==
    /\ lastlog = "executed"
    /\ \E i \in 1..Len(items) : InitItems[i].is_available /\ ~items[i].is_available
    /\ \E i \in 1..Len(items) : ~InitItems[i].is_available /\ items[i].is_available

(* C6: at most one stored schedule is Active, in every reachable state,
   the states after a failed execution and during an execution included *)
C6_AtMostOneActive == Cardinality(ActiveSchedules) <= 1

(* C7 as stated: of two overlapping Pending schedules the one with the
   earlier trigger time is executed when it is dispatched, and the other
   becomes Conflicted naming it *)
C7_EarlierIsExecuted ==
    [][ ( /\ IsExecuteStep
          /\ lastlog' \notin {"execute_failed", "conflict_update_failed"}
          /\ Len(schedules) = 2
          /\ WindowsMeet(schedules[1], schedules[2]) )
        => IF /\ schedules[1].status = "Pending" /\ schedules[2].status = "Pending"
              /\ \A e \in Range(events') : Popped.execution_time < e.execution_time
           THEN lastlog' = "executing"
           ELSE /\ StoredIn(schedules', cur'.id).status = "Conflicted"
                /\ \A i \in 1..2 : schedules[i].id # cur'.id =>
                      StoredIn(schedules', cur'.id).error_message = MsgConflict(schedules[i].id)
      ]_vars

(* C7 as amended: of two overlapping Pending schedules the one with the
   earlier trigger time is dispatched first, and every dispatch of either
   ends in Conflicted with a message naming the other; no preset is applied *)
C7_BothConflicted ==
    [][ ( /\ IsExecuteStep
          /\ lastlog' \notin {"execute_failed", "conflict_update_failed"}
          /\ Len(schedules) = 2
          /\ WindowsMeet(schedules[1], schedules[2]) )
        => /\ \A e \in Range(events) : Popped.execution_time <= e.execution_time
           /\ lastlog' = "conflict"
           /\ StoredIn(schedules', cur'.id).status = "Conflicted"
           /\ \A i \in 1..2 : schedules[i].id # cur'.id =>
                 StoredIn(schedules', cur'.id).error_message = MsgConflict(schedules[i].id)
           /\ items' = InitItems
           /\ pc' = "reload" ]_vars

C7_Witness ==
    /\ Len(schedules) = 2
    /\ schedules[1].start_time < schedules[2].start_time
    /\ schedules[1].status = "Conflicted" /\ schedules[1].error_message = MsgConflict(2)
    /\ schedules[2].status = "Conflicted" /\ schedules[2].error_message = MsgConflict(1)
    /\ schedules[1].updated_at = 0
    /\ items = InitItems

(* the start of the next occurrence of a recurring schedule, by its period *)
NextStart(schedule) ==
    CASE schedule.recurrence = "Daily" -> schedule.start_time + TicksPerDay
      [] schedule.recurrence = "Weekly" -> schedule.start_time + 7 * TicksPerDay
      [] OTHER -> CalculateNextOccurrence(schedule, 0)[1]

(* C8 as stated: a schedule executed while its end_time is in the future is
   Active in storage when the execution has finished *)
C8_ActiveAfterExecution ==
    [][ (IsExecutedStep /\ cur.end_time > clock)
        => StoredIn(schedules', cur.id).status = "Active" ]_vars

(* C8 as amended: the execution that wrote Active also writes the next
   status: Pending with start_time advanced for a recurring schedule whose
   next occurrence is at or before end_time, Ended otherwise.  A stored
   schedule leaves Active only by the final write of its own execution or,
   once end_time has elapsed, by the Active-end handler, which writes Ended *)
C8_ActiveOnlyDuringExecution ==
    [][ /\ (IsExecutedStep /\ cur.end_time > clock)
           => LET stored == StoredIn(schedules', cur.id)
              IN  IF cur.recurrence \in Recurring /\ NextStart(cur) <= cur.end_time
                  THEN stored.status = "Pending" /\ stored.start_time = NextStart(cur)
                  ELSE stored.status = "Ended"
        /\ \A i \in 1..Len(schedules) :
              (schedules[i].status = "Active" /\ schedules'[i].status # "Active")
              => \/ IsExecutedStep /\ cur.id = schedules[i].id
                 \/ /\ IsEndedStep /\ cur'.id = schedules[i].id
                    /\ schedules[i].end_time <= clock
                    /\ schedules'[i].status = "Ended" ]_vars

C8_Witness ==
    /\ lastlog = "executed" /\ pc = "reload"
    /\ clock < cur.end_time
    /\ Stored(cur.id) = cur
    /\ cur.status = "Pending" /\ cur.updated_at = clock

(* C9 as stated: the Active-end handler computes the next occurrence of a
   recurring schedule and sets it Pending at that start, or Ended with a
   message when the next occurrence is after end_time *)
C9_HandlerAdvances ==
    [][ (IsEndedStep /\ lastlog' = "ended" /\ cur'.recurrence \in Recurring)
        => LET stored == StoredIn(schedules', cur'.id)
           IN  IF NextStart(cur') <= cur'.end_time
               THEN stored.status = "Pending" /\ stored.start_time = NextStart(cur')
               ELSE stored.status = "Ended" /\ stored.error_message # None ]_vars

(* C9 as amended: the Active-end handler computes no next occurrence: it
   writes Ended, clears the message and leaves start_time alone.  The next
   occurrence is computed by execute_schedule after the preset has been
   applied while end_time is in the future: at or before end_time it becomes
   the start_time of a Pending schedule, after end_time the schedule becomes
   Ended with a message *)
C9_EndedWithoutAdvance ==
    [][ /\ (IsEndedStep /\ lastlog' = "ended" /\ cur'.recurrence \in Recurring)
           => LET stored == StoredIn(schedules', cur'.id)
              IN  /\ cur'.status = "Active" /\ cur'.end_time <= clock
                  /\ stored.status = "Ended"
                  /\ stored.error_message = None
                  /\ stored.start_time = cur'.start_time
        /\ (IsExecutedStep /\ cur.recurrence \in Recurring /\ cur.end_time > clock)
           => LET stored == StoredIn(schedules', cur.id)
              IN  IF NextStart(cur) <= cur.end_time
                  THEN /\ stored.status = "Pending"
                       /\ stored.start_time = NextStart(cur)
                       /\ stored.error_message = None
                  ELSE /\ stored.status = "Ended"
                       /\ stored.start_time = cur.start_time
                       /\ stored.error_message # None ]_vars

C9_Witness ==
    /\ lastlog = "ended" /\ pc = "reload"
    /\ cur.recurrence = "Daily" /\ cur.status = "Active"
    /\ cur.start_time + TicksPerDay <= cur.end_time
    /\ cur.end_time <= clock
    /\ Stored(cur.id).status = "Ended"
    /\ Stored(cur.id).start_time = cur.start_time
    /\ Stored(cur.id).error_message = None

(* C10: when the Active-end handler has been called for a schedule with
   Custom recurrence and its write succeeded, the stored schedule is Ended
   and carries no message *)
C10_CustomEnded ==
    (lastlog = "ended" /\ cur.recurrence = "Custom")
    => /\ cur.status = "Active"
       /\ Stored(cur.id).status = "Ended"
       /\ Stored(cur.id).error_message = None

C10_Witness ==
    /\ lastlog = "ended" /\ pc = "reload"
    /\ cur.recurrence = "Custom" /\ cur.status = "Active"
    /\ cur.end_time <= clock
    /\ cur.error_message # None
    /\ Stored(cur.id).status = "Ended"
    /\ Stored(cur.id).error_message = None

----------------------------------------------------------------------------
(* End-to-end scenarios: a Daily schedule executed at its start_time *)

(* a Daily schedule whose next occurrence is at or before its end_time *)
DailyFits(schedule) ==
    schedule.recurrence = "Daily" /\ schedule.start_time + TicksPerDay <= schedule.end_time

(* a Daily schedule whose next occurrence is after its end_time *)
DailyOverruns(schedule) ==
    schedule.recurrence = "Daily" /\ schedule.start_time + TicksPerDay > schedule.end_time

(* every item is available exactly when the preset with the given id holds it *)
PresetApplied(its, id) ==
    \A i \in 1..Len(its) : its[i].is_available = (its[i].id \in PresetItemIds(id))

(* C11 as stated: a Daily schedule executed at its start_time, with the next
   day's occurrence at or before end_time, is Active in storage with its
   preset applied when the execution has finished, and the Active-end
   handler, once the window has elapsed, advances start_time by one day and
   sets the status to Pending *)
C11_ActiveThenAdvanced ==
    [][ /\ (IsExecutedStep /\ DailyFits(cur) /\ cur.start_time = clock)
           => /\ StoredIn(schedules', cur.id).status = "Active"
              /\ PresetApplied(items', cur.preset_id)
        /\ (IsEndedStep /\ lastlog' = "ended" /\ DailyFits(cur'))
           => /\ StoredIn(schedules', cur'.id).status = "Pending"
              /\ StoredIn(schedules', cur'.id).start_time = cur'.start_time + TicksPerDay
      ]_vars

(* C11 as amended: the execution itself, every storage call succeeding,
   applies the preset and writes the schedule back as Pending with start_time
   advanced by exactly one day; the schedule is Active in storage only from
   the first to the last write of that execution.  A stored schedule becomes
   Pending again by no other step; the Active-end handler writes Ended *)
C11_AdvancedByExecution ==
    [][ /\ (IsExecutedStep /\ DailyFits(cur) /\ cur.start_time = clock)
           => LET stored == StoredIn(schedules', cur.id)
              IN  /\ Stored(cur.id).status = "Active"
                  /\ stored.status = "Pending"
                  /\ stored.start_time = cur.start_time + TicksPerDay
                  /\ stored.end_time = cur.end_time
                  /\ stored.updated_at = clock
                  /\ PresetApplied(items', cur.preset_id)
        /\ \A i \in 1..Len(schedules) :
              (schedules[i].status # "Pending" /\ schedules'[i].status = "Pending")
              => /\ IsExecutedStep /\ cur.id = schedules[i].id
                 /\ schedules[i].status = "Active"
                 /\ schedules'[i].start_time = NextStart(schedules[i])
        /\ (IsEndedStep /\ lastlog' = "ended" /\ DailyFits(cur'))
           => StoredIn(schedules', cur'.id).status = "Ended" ]_vars

C11_Witness ==
    /\ lastlog = "executed" /\ pc = "reload"
    /\ cur.recurrence = "Daily" /\ cur.status = "Pending"
    /\ cur.updated_at = clock
    /\ cur.start_time = clock + TicksPerDay
    /\ cur.start_time <= cur.end_time
    /\ Stored(cur.id) = cur
    /\ PresetApplied(items, cur.preset_id)
    /\ items # InitItems

(* C12: a Daily schedule executed at its start_time, before its end_time,
   whose next occurrence lies after end_time is, every storage call
   succeeding, written back as Ended with a message; and a stored Daily
   schedule whose next occurrence lies after end_time never goes back to
   Pending once it has left Pending *)
C12_EndedWithMessage ==
    [][ /\ (/\ IsExecutedStep /\ DailyOverruns(cur)
            /\ cur.start_time = clock /\ clock < cur.end_time)
           => LET stored == StoredIn(schedules', cur.id)
              IN  /\ stored.status = "Ended"
                  /\ stored.error_message # None
                  /\ stored.start_time = cur.start_time
        /\ \A i \in 1..Len(schedules) :
              (DailyOverruns(schedules[i]) /\ schedules[i].status # "Pending")
              => schedules'[i].status # "Pending" ]_vars

C12_Witness ==
    /\ lastlog = "executed" /\ pc = "reload"
    /\ DailyOverruns(cur) /\ cur.status = "Ended"
    /\ cur.error_message = MsgAfterEnd
    /\ cur.updated_at = cur.start_time /\ clock = cur.start_time
    /\ cur.start_time < cur.end_time
    /\ Stored(cur.id) = cur
    /\ PresetApplied(items, cur.preset_id)

----------------------------------------------------------------------------
(* Terminal statuses *)

Terminal == {"Ended", "Conflicted"}

(* C13: with the scheduler as the only writer, a schedule whose stored
   status is Ended or Conflicted has no event in the queue, is not the
   schedule of an execution in progress, and no step changes its record,
   dispatches it or applies its preset *)
C13_Terminal ==
    [][ \A i \in 1..Len(schedules') :
          schedules'[i].status \in Terminal
          => /\ \A e \in Range(events') : e.schedule.id # schedules'[i].id
             /\ ~(pc' = "apply" /\ cur'.id = schedules'[i].id)
             /\ schedules[i].status \in Terminal
                => /\ schedules'[i] = schedules[i]
                   /\ ~((IsExecuteStep \/ IsEndedStep) /\ cur'.id = schedules[i].id)
                   /\ ~(pc = "apply" /\ cur.id = schedules[i].id) ]_vars

C13_Witness ==
    /\ pc = "loop" /\ events # <<>>
    /\ \E i \in 1..Len(schedules) :
          /\ schedules[i].status = "Ended"
          /\ schedules[i].updated_at < clock
          /\ schedules[i].recurrence \in Recurring
          /\ \A e \in Range(events) : e.schedule.id # schedules[i].id
    /\ lastlog = "ended"

----------------------------------------------------------------------------
(* Missing preset *)

(* C14: when the execution of a Pending schedule finds no preset with the
   schedule's preset_id, it fails, the stored schedule is still Pending, no
   item has changed and the loop goes on to rebuild the queue *)
C14_MissingPresetLeavesPending ==
    [][ (pc = "apply" /\ pc' # "apply" /\ FindPreset(presets, cur.preset_id) = None)
        => /\ lastlog' = "execute_failed"
           /\ StoredIn(schedules', cur.id).status = "Pending"
           /\ items' = items
           /\ pc' = "reload" ]_vars

----------------------------------------------------------------------------
(* The loop never dies *)

(* what the scheduler logs when a storage call fails or a conflict is found *)
FailureLogs ==
    {"load_failed", "execute_failed", "conflict", "conflict_update_failed",
     "ended_update_failed"}

(* C15: whatever storage calls fail, whatever preset is missing and whatever
   conflict is found, run_scheduler rebuilds the queue again and again: the
   load of the queue happens infinitely often, and from every state in which
   a failure was logged last the loop reaches its next load *)
C15_LoopNeverDies ==
    /\ []<><<Reload>>_vars
    /\ (lastlog \in FailureLogs /\ pc # "reload") ~> (pc = "reload")

C15_Witness ==
    /\ pc = "loop" /\ events # <<>>
    /\ lastlog = "execute_failed"
    /\ Stored(cur.id).status = "Active"
    /\ FindPreset(presets, cur.preset_id) = None
    /\ \E e \in Range(events) : e.schedule.id # cur.id

----------------------------------------------------------------------------
(* calculate_next_occurrence as a pure function: a schedule and a value of
   now drawn from bounded sets, one call, and a second call with the same
   recurrence and start_time *)

NextInputs ==
    { MenuSchedule(1, 1, s, e, r, "Pending", None, 0) :
        s \in 0..MaxNextStart, e \in 0..MaxNextEnd, r \in ScheduleRecurrence }

InitNext ==
    /\ cur \in NextInputs
    /\ clock \in 0..MaxNow
    /\ schedules = <<>>
    /\ items = InitItems
    /\ presets = InitPresets
    /\ events = <<>>
    /\ pc = "next_call"
    /\ conflict = None
    /\ lastlog = "start"
    /\ slept = FALSE
    /\ next_start = None

CallCalculateNextOccurrence ==
    /\ pc = "next_call"
    /\ next_start' = CalculateNextOccurrence(cur, clock)
    /\ pc' = "next_done"
    /\ UNCHANGED <<schedules, items, presets, events, clock, cur, conflict, lastlog, slept>>

(* a second call with the same arguments *)
CallAgain ==
    /\ pc = "next_done"
    /\ next_start' = CalculateNextOccurrence(cur, clock)
    /\ pc' = "next_again"
    /\ UNCHANGED <<schedules, items, presets, events, clock, cur, conflict, lastlog, slept>>

(* a second call at a later now, for a schedule that has the same recurrence
   and start_time and any end_time and preset_id *)
CallLater ==
    /\ pc = "next_done"
    /\ \E now \in (clock + 1)..(MaxNow + 1), e \in 0..MaxNextEnd, p \in {1, 2} :
          /\ clock' = now
          /\ cur' = [cur EXCEPT !.end_time = e, !.preset_id = p]
          /\ next_start' = CalculateNextOccurrence(cur', now)
    /\ pc' = "next_later"
    /\ UNCHANGED <<schedules, items, presets, events, conflict, lastlog, slept>>

NextNext ==
    \/ CallCalculateNextOccurrence
    \/ CallAgain
    \/ CallLater

SpecNext == InitNext /\ [][NextNext]_vars

(* a call of calculate_next_occurrence has returned *)
NextReturned == pc \in {"next_done", "next_again", "next_later"}

(* C16: for a Daily schedule the call returns exactly start_time + 1 day and
   for a Weekly schedule exactly start_time + 7 days, whatever start_time
   and now are *)
C16_DailyWeeklyExact ==
    NextReturned =>
        /\ cur.recurrence = "Daily" => next_start = Some(cur.start_time + TicksPerDay)
        /\ cur.recurrence = "Weekly" => next_start = Some(cur.start_time + 7 * TicksPerDay)

C16_Witness ==
    /\ pc = "next_done" /\ cur.recurrence = "Weekly"
    /\ cur.start_time > clock /\ clock > 0
    /\ next_start = Some(cur.start_time + 7 * TicksPerDay)

(* the month after the month of a date, as year and month *)
MonthAfter(date) ==
    IF date.m = 12 THEN [y |-> date.y + 1, m |-> 1] ELSE [y |-> date.y, m |-> date.m + 1]

(* C17: for a Monthly schedule the call returns the same day of the next
   calendar month, or that month's last day when it has no such day, at the
   time of day of start_time, and the result is later than start_time; a
   start on 2023-01-15 gives the same time of day on 2023-02-15, 31 days
   later, and a start on 2023-01-29, 30 or 31 gives 2023-02-28 *)
C17_MonthlyNextMonth ==
    (NextReturned /\ cur.recurrence = "Monthly") =>
        /\ next_start # None
        /\ LET from == DateNaive(cur.start_time)
               to == DateNaive(next_start[1])
               after == MonthAfter(from)
           IN  /\ to.y = after.y /\ to.m = after.m
               /\ to.d = IF from.d <= DaysInMonth(after.y, after.m)
                         THEN from.d ELSE DaysInMonth(after.y, after.m)
               /\ from = Epoch => to = [y |-> 2023, m |-> 2, d |-> 15]
        /\ TimeOfDay(next_start[1]) = TimeOfDay(cur.start_time)
        /\ next_start[1] > cur.start_time
        /\ cur.start_time \div TicksPerDay = 0
              => next_start[1] = cur.start_time + 31 * TicksPerDay
        /\ cur.start_time \div TicksPerDay \in 14..16
              => next_start[1] \div TicksPerDay = 44

C17_Witness ==
    /\ pc = "next_done" /\ cur.recurrence = "Monthly"
    /\ DateNaive(cur.start_time) = [y |-> 2023, m |-> 1, d |-> 31]
    /\ TimeOfDay(cur.start_time) # 0
    /\ next_start # None
    /\ DateNaive(next_start[1]) = [y |-> 2023, m |-> 2, d |-> 28]
    /\ TimeOfDay(next_start[1]) = TimeOfDay(cur.start_time)

(* C18: for a schedule with Custom recurrence the call returns None,
   whatever start_time, end_time and now are *)
C18_CustomNone ==
    (NextReturned /\ cur.recurrence = "Custom") => next_start = None

C18_Witness ==
    /\ pc = "next_later" /\ cur.recurrence = "Custom"
    /\ cur.start_time < cur.end_time /\ clock > cur.end_time
    /\ next_start = None

(* C19: a second call returns what the first call returned, when it is made
   with the same arguments and when it is made with another now and a
   schedule that has the same recurrence and start_time *)
C19_IndependentOfNow ==
    [][ (pc = "next_done" /\ pc' # "next_done")
        => /\ cur'.recurrence = cur.recurrence /\ cur'.start_time = cur.start_time
           /\ next_start' = next_start ]_vars

C19_Witness ==
    /\ pc = "next_later" /\ cur.recurrence = "Daily"
    /\ clock > cur.start_time
    /\ next_start = Some(cur.start_time + TicksPerDay)

----------------------------------------------------------------------------
(* The event queue on its own: events pushed in any order, with any
   execution_time, and popped at any moment *)

InitQueue ==
    /\ events = <<>>
    /\ cur = NoSchedule
    /\ schedules = <<>>
    /\ items = InitItems
    /\ presets = InitPresets
    /\ clock = 0
    /\ pc = "queue"
    /\ conflict = None
    /\ lastlog = "start"
    /\ slept = FALSE
    /\ next_start = None

(* events.push(ScheduledEvent { schedule, execution_time }) *)
PushEvent ==
    /\ pc = "queue"
    /\ Len(events) < MaxEvents
    /\ \E id \in ScheduleIds, t \in 0..MaxEventTime :
          events' = Push(events,
                         ScheduledEvent(MenuSchedule(id, 1, t, MaxEventTime + 1, "Custom",
                                                     "Pending", None, 0), t))
    /\ UNCHANGED <<schedules, items, presets, clock, pc, cur, conflict, lastlog, slept,
                   next_start>>

(* events.pop(): cur is the schedule of the event it returned *)
PopEvent ==
    /\ pc = "queue"
    /\ Peek(events) # None
    /\ cur' = Peek(events)[1].schedule
    /\ events' = PopRest(events)
    /\ UNCHANGED <<schedules, items, presets, clock, pc, conflict, lastlog, slept,
                   next_start>>

NextQueue ==
    \/ PushEvent
    \/ PopEvent

SpecQueue == InitQueue /\ [][NextQueue]_vars

(* how often an event is in the queue *)
Count(data, e) == Cardinality({ i \in 1..Len(data) : data[i] = e })

(* C20: whatever was pushed and popped, in whatever order, the event peek
   returns has the smallest execution_time in the queue; pop returns an
   event whose execution_time no queued event is below, and takes out that
   event and no other; push loses no event *)
C20_MinQueue ==
    [][ /\ events' # <<>>
           => \A e \in Range(events') :
                 Peek(events')[1].execution_time <= e.execution_time
        /\ Len(events') < Len(events)
           => /\ cur' = Popped.schedule
              /\ \A e \in Range(events) : Popped.execution_time <= e.execution_time
              /\ \A e \in Range(events) :
                    Count(events', e) = Count(events, e) - (IF e = Popped THEN 1 ELSE 0)
        /\ Len(events') > Len(events)
           => /\ Len(events') = Len(events) + 1
              /\ \A e \in Range(events) : Count(events', e) >= Count(events, e) ]_vars

C20_Witness ==
    /\ pc = "queue" /\ Len(events) = 3
    /\ cur # NoSchedule /\ cur.start_time = 0
    /\ events[1].execution_time = 1
    /\ events[2].execution_time = 2
    /\ events[3].execution_time = 1

----------------------------------------------------------------------------
(* Idle behaviour *)

(* a step that loads the queue, at line 72, 94 or 110 *)
IsLoadStep == pc \in {"start", "reload"} /\ pc' = "loop"

(* C21: with no schedule in storage, every load of the queue but the first
   one, at start-up, comes after a suspension of the idle interval that
   followed the load before it; this holds whether the reads fail or not *)
C21_IdleSleeps ==
    [][ /\ (IsLoadStep /\ schedules = <<>> /\ pc = "reload") => slept
        /\ (pc = "loop" /\ pc' # "loop" /\ schedules = <<>>) => (~slept /\ slept') ]_vars

C21_Witness ==
    /\ schedules = <<>>
    /\ pc = "reload" /\ slept
    /\ lastlog = "load_failed"
    /\ clock > 0

----------------------------------------------------------------------------
(* Invariants of the stored records *)

(* C22 as stated: every stored schedule has start_time < end_time *)
C22_StartBeforeEnd ==
    \A i \in 1..Len(schedules) : schedules[i].start_time < schedules[i].end_time

(* C22 as amended: every stored schedule has start_time <= end_time; a
   recurrence advance writes the next occurrence as start_time when it is at
   or before end_time, so a schedule whose next occurrence is exactly
   end_time is stored with start_time = end_time; every other write leaves
   start_time and end_time alone *)
C22_StartNotAfterEnd ==
    [][ \A i \in 1..Len(schedules') :
          /\ schedules'[i].start_time <= schedules'[i].end_time
          /\ schedules'[i].end_time = schedules[i].end_time
          /\ schedules'[i].start_time # schedules[i].start_time
             => /\ IsExecutedStep /\ cur.id = schedules[i].id
                /\ schedules'[i].status = "Pending"
                /\ schedules'[i].start_time = NextStart(schedules[i])
                /\ schedules'[i].start_time > schedules[i].start_time ]_vars

C22_Witness ==
    /\ lastlog = "executed" /\ pc = "reload"
    /\ cur.status = "Pending" /\ cur.recurrence \in Recurring
    /\ Stored(cur.id) = cur
    /\ cur.start_time = cur.end_time

(* C23: every record the scheduler writes has a message only when its
   status is Conflicted, or Ended with the message of a failed advance; the
   records it writes as Active, as Pending after an advance and as Ended at
   the end of the window have no message, whatever message the schedule
   carried before *)
C23_MessageOnlyOnFailure ==
    [][ \A i \in 1..Len(schedules') :
          schedules'[i] # schedules[i]
          => IF schedules'[i].status = "Conflicted"
             THEN schedules'[i].error_message # None
             ELSE IF schedules'[i].status = "Ended"
             THEN schedules'[i].error_message \in {None, MsgAfterEnd, MsgCannot}
             ELSE schedules'[i].error_message = None ]_vars

(* C24: every write that changes a schedule's status sets updated_at to the
   time of the write *)
C24_UpdatedAtOnTransition ==
    [][ \A i \in 1..Len(schedules') :
          schedules'[i].status # schedules[i].status
          => schedules'[i].updated_at = clock ]_vars

----------------------------------------------------------------------------
(* load_scheduled_events on its own: a storage with schedules of every
   status, a value of now, and one call *)

InitLoad ==
    /\ \E n \in 0..MaxLoad :
         \E st \in [1..n -> ScheduleStatus], s \in [1..n -> 0..MaxLoadTime] :
            schedules = [i \in 1..n |->
                           MenuSchedule(i, 1, s[i], s[i] + 1, "Custom", st[i], None, 0)]
    /\ clock \in 0..MaxNow
    /\ events = <<>>
    /\ cur = NoSchedule
    /\ items = InitItems
    /\ presets = InitPresets
    /\ pc = "load_call"
    /\ conflict = None
    /\ lastlog = "start"
    /\ slept = FALSE
    /\ next_start = None

CallLoadScheduledEvents ==
    /\ pc = "load_call"
    /\ \/ /\ events' = LoadScheduledEvents(schedules, clock)
          /\ UNCHANGED lastlog
       \/ /\ events' = <<>>                    \* get_menu_schedules failed
          /\ lastlog' = "load_failed"
    /\ pc' = "load_done"
    /\ UNCHANGED <<schedules, items, presets, clock, cur, conflict, slept, next_start>>

NextLoad == CallLoadScheduledEvents

SpecLoad == InitLoad /\ [][NextLoad]_vars

(* the call has returned the queue built from the schedules it read *)
Loaded == pc = "load_done" /\ lastlog # "load_failed"

(* the events queued for the schedule with an id *)
EventsOf(id) == { k \in 1..Len(events) : events[k].schedule.id = id }

(* C25: in the queue the call returns, a Pending schedule has the trigger
   time start_time when start_time is not before now and now otherwise,
   that is max(start_time, now), and an Active schedule has the trigger time
   end_time; every Pending schedule is queued, also one whose start has
   passed *)
C25_TriggerTimes ==
    Loaded =>
        /\ \A i \in 1..Len(schedules) :
              /\ schedules[i].status = "Pending"
                 => \E k \in 1..Len(events) :
                       /\ events[k].schedule = schedules[i]
                       /\ events[k].execution_time =
                             (IF schedules[i].start_time < clock
                              THEN clock ELSE schedules[i].start_time)
              /\ schedules[i].status = "Active"
                 => \E k \in 1..Len(events) :
                       /\ events[k].schedule = schedules[i]
                       /\ events[k].execution_time = schedules[i].end_time
        /\ \A k \in 1..Len(events) :
              /\ events[k].schedule.status = "Pending"
                 => events[k].execution_time = Max(events[k].schedule.start_time, clock)
              /\ events[k].schedule.status = "Active"
                 => events[k].execution_time = events[k].schedule.end_time

C25_Witness ==
    /\ Loaded /\ Len(schedules) = 3 /\ Len(events) = 3
    /\ \E k \in 1..3 : /\ events[k].schedule.status = "Pending"
                        /\ events[k].schedule.start_time < clock
                        /\ events[k].execution_time = clock
    /\ \E k \in 1..3 : /\ events[k].schedule.status = "Pending"
                        /\ events[k].schedule.start_time > clock
                        /\ events[k].execution_time = events[k].schedule.start_time
    /\ \E k \in 1..3 : /\ events[k].schedule.status = "Active"
                        /\ events[k].schedule.end_time <= clock
                        /\ events[k].execution_time = events[k].schedule.end_time

(* C26: the queue the call returns holds exactly one event for each stored
   schedule that is Pending or Active, none for a schedule that is Ended or
   Conflicted, and nothing else *)
C26_OneEventEach ==
    Loaded =>
        /\ \A i \in 1..Len(schedules) :
              Cardinality(EventsOf(schedules[i].id)) =
                 (IF schedules[i].status \in {"Pending", "Active"} THEN 1 ELSE 0)
        /\ \A k \in 1..Len(events) : events[k].schedule \in Range(schedules)
        /\ Len(events) =
              Cardinality({ i \in 1..Len(schedules) :
                              schedules[i].status \in {"Pending", "Active"} })

C26_Witness ==
    /\ Loaded /\ Len(schedules) = 3 /\ Len(events) = 1
    /\ schedules[1].status = "Ended"
    /\ schedules[2].status = "Active"
    /\ schedules[3].status = "Conflicted"
    /\ events[1].schedule = schedules[2]

----------------------------------------------------------------------------
(* The protocol of the loop *)

(* a step that pops the head event and dispatches it *)
IsDispatchStep == IsExecuteStep \/ IsEndedStep

(* C27: a dispatch is always followed by a load of the queue before the
   loop looks at the queue again: a dispatch leaves the loop's head for the
   executor or the load, the executor goes on to the load, the loop's head
   is reached again only by a load, and a load replaces the whole queue by
   what load_scheduled_events returns (the events of the stored schedules,
   or nothing when the read fails); the queue changes in no other way *)
C27_ReloadAfterDispatch ==
    [][ /\ IsDispatchStep => (pc' \in {"apply", "reload"} /\ events' = PopRest(events))
        /\ pc = "apply" => pc' \in {"apply", "reload"}
        /\ (pc # "loop" /\ pc' = "loop") => IsLoadStep
        /\ IsLoadStep => events' \in {LoadScheduledEvents(schedules, clock), <<>>}
        /\ events' # events => (IsDispatchStep \/ IsLoadStep) ]_vars

C27_Witness ==
    /\ pc = "reload" /\ lastlog = "executed"
    /\ events # <<>>
    /\ events[1].execution_time <= clock
    /\ events[1].schedule.id # cur.id
    /\ Stored(events[1].schedule.id).status = "Pending"

(* C28: the head event is dispatched only when its execution_time is at or
   before now; when it is not, nothing is dispatched and the loop suspends
   for execution_time - now, clamped to zero, so that it wakes at
   execution_time *)
C28_NotBeforeTrigger ==
    [][ /\ IsDispatchStep
           => /\ Popped.execution_time <= clock
              /\ \A e \in Range(events) : Popped.execution_time <= e.execution_time
        /\ (pc = "loop" /\ events # <<>> /\ Popped.execution_time > clock)
           => (pc' = "loop" /\ events' = events /\ schedules' = schedules)
        /\ (pc = "loop" /\ ~slept /\ slept' /\ events # <<>>)
           => /\ Popped.execution_time > clock
              /\ clock' - clock = Max(Popped.execution_time - clock, 0)
              /\ clock' = Popped.execution_time ]_vars

C28_Witness ==
    /\ pc = "loop" /\ slept
    /\ events # <<>>
    /\ events[1].execution_time = clock
    /\ clock = MaxStart
    /\ lastlog = "executed" /\ cur.updated_at = 0

----------------------------------------------------------------------------
(* Dispatch order and the conflict check, with another writer of storage *)

(* the trigger time of a stored schedule: the time of its queued event when
   the queue holds one, else the time build_queue gives it when it is read
   at the time it was written *)
StoredTriggerTime(schedule) ==
    IF EventsOf(schedule.id) # {}
    THEN events[CHOOSE k \in EventsOf(schedule.id) : TRUE].execution_time
    ELSE IF schedule.status = "Pending"
         THEN Max(schedule.start_time, schedule.updated_at)
         ELSE schedule.end_time

(* the stored schedules that are Pending or Active and whose trigger time is
   smaller than t *)
DueBefore(t) ==
    { i \in 1..Len(schedules) :
        /\ schedules[i].status \in {"Pending", "Active"}
        /\ StoredTriggerTime(schedules[i]) < t }

(* C29, as stated: whenever an event with trigger time T is dispatched,
   storage holds no Pending or Active schedule whose trigger time is smaller
   than T, also when another writer creates or edits schedules *)
C29_StorageOrder ==
    [][ IsDispatchStep => DueBefore(Popped.execution_time) = {} ]_vars

(* C29, amended: the dispatched event is the earliest of the queue, and a
   stored Pending or Active schedule with a smaller trigger time is one that
   was written after the queue was built: the queue holds no event for it *)
C29_QueueOrder ==
    [][ IsDispatchStep =>
          /\ \A k \in 1..Len(events) :
                events[k].execution_time >= Popped.execution_time
          /\ \A i \in DueBefore(Popped.execution_time) :
                /\ EventsOf(schedules[i].id) = {}
                /\ schedules[i].created_at = schedules[i].updated_at
                /\ schedules[i].status = "Pending" ]_vars

(* a schedule was dispatched at its start while storage held a Pending
   schedule, created after the queue was built, that was due earlier *)
C29_Witness ==
    /\ pc = "apply" /\ lastlog = "executing"
    /\ cur.start_time = clock
    /\ \E i \in 1..Len(schedules) :
          /\ schedules[i].id # cur.id
          /\ schedules[i].status = "Pending"
          /\ schedules[i].created_at > 0
          /\ schedules[i].created_at <= schedules[i].start_time
          /\ schedules[i].start_time < cur.start_time
          /\ EventsOf(schedules[i].id) = {}

(* C30: the conflict check of an execution is made against the schedules
   that are in storage at the dispatch, whatever the queue was built from:
   a conflict is reported exactly when a stored schedule with another id has
   a window that meets the dispatched one, and the schedule reported is a
   record of storage *)
C30_FreshConflictCheck ==
    [][ (IsExecuteStep /\ lastlog' # "execute_failed") =>
          LET others == { i \in 1..Len(schedules) :
                            /\ schedules[i].id # Popped.schedule.id
                            /\ WindowsMeet(Popped.schedule, schedules[i]) }
          IN  /\ (lastlog' \in {"conflict", "conflict_update_failed"}) <=> (others # {})
              /\ (conflict' # None) <=> (others # {})
              /\ others # {} =>
                    conflict' = Some(schedules[CHOOSE i \in others :
                                                 \A j \in others : i <= j]) ]_vars

(* an execution was marked Conflicted because of a schedule that another
   writer created after the queue was built *)
C30_Witness ==
    /\ pc = "reload" /\ lastlog = "conflict"
    /\ conflict # None
    /\ conflict[1] \in Range(schedules)
    /\ conflict[1].created_at > 0
    /\ conflict[1].status = "Pending"
    /\ EventsOf(conflict[1].id) = {}
    /\ Stored(cur.id).status = "Conflicted"

----------------------------------------------------------------------------
(* Failing reads of storage at the build of the queue *)

(* the stored schedules that need an event *)
NeedEvent == { i \in 1..Len(schedules) : schedules[i].status \in {"Pending", "Active"} }

(* C31: a load whose read fails gives an empty queue and leaves storage as
   it is; with an empty queue the loop does nothing but suspend for the idle
   interval and load again; and a load whose read succeeds enqueues every
   Pending or Active schedule stored at that time, also when the load before
   it failed *)
C31_ReadFailureLosesNothing ==
    [][ /\ (IsLoadStep /\ lastlog' = "load_failed" /\ lastlog # "load_failed") =>
              (events' = <<>> /\ schedules' = schedules)
        /\ (pc = "loop" /\ events = <<>> /\ pc' # pc) =>
              (pc' = "reload" /\ slept' /\ schedules' = schedules /\ events' = <<>>)
        /\ IsLoadStep =>
              \/ events' = <<>> /\ lastlog' = "load_failed"
              \/ /\ Len(events') = Cardinality(NeedEvent)
                 /\ \A i \in NeedEvent :
                       \E k \in 1..Len(events') :
                          /\ events'[k].schedule = schedules[i]
                          /\ events'[k].execution_time =
                                IF schedules[i].status = "Pending"
                                THEN Max(schedules[i].start_time, clock)
                                ELSE schedules[i].end_time ]_vars

(* after a load that failed and an idle wait, the next load succeeded and
   queued both stored schedules, one of them past its start *)
C31_Witness ==
    /\ pc = "loop" /\ lastlog = "load_failed"
    /\ Len(events) = 2 /\ Cardinality(NeedEvent) = 2
    /\ \E k \in 1..2 : events[k].execution_time > events[k].schedule.start_time

----------------------------------------------------------------------------
(* The record a dispatch acts on *)

(* C32: at every dispatch the dispatched record equals the record that is in
   storage under its id *)
C32_DispatchedIsStored ==
    [][ IsDispatchStep => Popped.schedule = Stored(Popped.schedule.id) ]_vars

----------------------------------------------------------------------------
(* The conflict check and the status of the other schedules *)

(* the stored schedules, of any status, that are not the given one and whose
   window meets its window *)
OverlappingStored(schedule) ==
    { i \in 1..Len(schedules) :
        schedules[i].id # schedule.id /\ WindowsMeet(schedule, schedules[i]) }

(* C33: an execution whose storage calls succeed marks the schedule
   Conflicted when any other stored schedule overlaps its window, whatever
   the status of that schedule, and the execution goes on to apply the preset
   only when no other stored schedule of any status overlaps its window *)
C33_StatusIgnored ==
    [][ /\ (IsExecuteStep /\ OverlappingStored(Popped.schedule) # {}) =>
              /\ lastlog' \in {"execute_failed", "conflict", "conflict_update_failed"}
              /\ pc' = "reload"
              /\ lastlog' = "conflict" =>
                    StoredIn(schedules', Popped.schedule.id).status = "Conflicted"
        /\ (IsExecuteStep /\ lastlog' = "executing") =>
              OverlappingStored(Popped.schedule) = {} ]_vars

(* a Pending schedule was marked Conflicted because of a schedule that is
   Ended *)
C33_Witness ==
    /\ pc = "reload" /\ lastlog = "conflict"
    /\ conflict # None /\ conflict[1].status = "Ended"
    /\ conflict[1] \in Range(schedules)
    /\ Stored(cur.id).status = "Conflicted"
    /\ cur.status = "Pending"

----------------------------------------------------------------------------
(* The loop when every storage operation succeeds and time passes *)

(* a step in which a storage operation returned an error *)
StorageFailure ==
    \/ IsLoadStep /\ lastlog' = "load_failed"
    \/ IsExecuteStep /\ lastlog' \in {"execute_failed", "conflict_update_failed"}
    \/ IsEndedStep /\ lastlog' = "ended_update_failed"
    \/ /\ pc = "apply" /\ lastlog' = "execute_failed"
       /\ FindPreset(presets, cur.preset_id) # None

(* a step of run_scheduler in which every storage operation succeeds *)
LoopOk == Loop /\ ~StorageFailure

NextOk ==
    \/ Tick
    \/ LoopOk

(* the scheduler is the only writer, its storage operations succeed and the
   task keeps running *)
SpecOk == Init /\ [][NextOk]_vars /\ WF_vars(LoopOk)

(* the number of executions a schedule has left at most: one when it does
   not recur, else one for each start from start_time on, a period apart,
   that is not after end_time *)
ExecutionsLeft(schedule) ==
    IF schedule.recurrence = "Custom" \/ schedule.start_time > schedule.end_time
    THEN 1
    ELSE (schedule.end_time - schedule.start_time)
            \div (NextStart(schedule) - schedule.start_time) + 1

(* C34: with the scheduler as the only writer and storage operations
   succeeding, every stored schedule that is Pending or Active becomes Ended
   or Conflicted; end_time never changes, start_time changes only by an
   execution that ran to its end, which moves it forward by one period and
   so takes one from the executions the schedule has left, of which at least
   one was left before *)
C34_Terminates ==
    /\ \A id \in ScheduleIds :
          (\E i \in 1..Len(schedules) : schedules[i].id = id) ~>
             (\E i \in 1..Len(schedules) :
                 schedules[i].id = id /\ schedules[i].status \in Terminal)
    /\ [][ /\ \A i \in 1..Len(schedules) :
                /\ schedules'[i].end_time = schedules[i].end_time
                /\ schedules'[i].start_time # schedules[i].start_time =>
                      (IsExecutedStep /\ cur.id = schedules[i].id)
           /\ IsExecutedStep =>
                /\ ExecutionsLeft(cur) >= 1
                /\ cur'.status \in {"Pending", "Ended"}
                /\ cur'.status = "Pending" =>
                      /\ cur'.start_time = NextStart(cur)
                      /\ cur'.start_time > cur.start_time
                      /\ ExecutionsLeft(cur') = ExecutionsLeft(cur) - 1
                      /\ ExecutionsLeft(cur') >= 1 ]_vars

(* a daily schedule was executed, advanced by a day, executed again and then
   Ended because the next day is after its end_time; the other schedule is
   terminal as well *)
C34_Witness ==
    /\ Len(schedules) = 2
    /\ \A i \in 1..2 : schedules[i].status \in Terminal
    /\ schedules[1].recurrence = "Daily"
    /\ schedules[1].status = "Ended"
    /\ schedules[1].error_message = MsgAfterEnd
    /\ schedules[1].start_time >= Day

----------------------------------------------------------------------------
(* The loop with another writer, when the reads of storage succeed, the task
   keeps running and time passes *)

(* a step in which a read of storage returned an error *)
ReadFailure ==
    \/ IsLoadStep /\ lastlog' = "load_failed"
    \/ IsExecuteStep /\ lastlog' = "execute_failed" /\ cur'.status # "Active"

(* a step of run_scheduler in which every read of storage succeeds *)
LoopReads == Loop /\ ~ReadFailure

NextReads ==
    \/ Tick
    \/ LoopReads
    \/ ExternalCreate
    \/ ExternalEdit

SpecReads == InitExt /\ [][NextReads]_vars /\ WF_vars(LoopReads) /\ WF_vars(Tick)

(* the schedule with the given id is stored and Pending *)
IsPending(id) ==
    \E i \in 1..Len(schedules) : schedules[i].id = id /\ schedules[i].status = "Pending"

(* a dispatch of the schedule with the given id, at or after its start_time *)
DispatchOf(id) ==
    /\ IsDispatchStep
    /\ Popped.schedule.id = id
    /\ clock >= Popped.schedule.start_time

(* C35: a schedule that stays Pending in storage is dispatched, at or after
   its start_time: for each id, either the schedule is again and again not
   Pending or it is dispatched again and again *)
C35_PendingDispatched ==
    \A id \in ScheduleIds :
       \/ []<>(~IsPending(id))
       \/ []<><<DispatchOf(id)>>_vars

----------------------------------------------------------------------------
(* Frame of the writes *)

(* C36: an execution that advances a recurring schedule writes the stored
   record with start_time moved by one period, status Pending, updated_at
   now and no error_message, and with id, preset_id, recurrence, created_at
   and end_time as they were; no other schedule is written *)
C36_AdvanceFrame ==
    [][ (IsExecutedStep /\ cur'.status = "Pending") =>
          LET old == Stored(cur.id)
              new == StoredIn(schedules', cur.id)
          IN  /\ new = [old EXCEPT !.start_time = NextStart(old),
                                   !.status = "Pending",
                                   !.updated_at = clock,
                                   !.error_message = None]
              /\ new.end_time = old.end_time
              /\ new.end_time - new.start_time
                    = (old.end_time - old.start_time) - (NextStart(old) - old.start_time)
              /\ Len(schedules') = Len(schedules)
              /\ \A i \in 1..Len(schedules) :
                    schedules[i].id # cur.id => schedules'[i] = schedules[i] ]_vars

(* a recurring schedule was executed late and advanced: its window still
   ends at the same end_time and is shorter than it was *)
C36_Witness ==
    /\ lastlog = "executed" /\ pc = "reload"
    /\ cur.status = "Pending" /\ cur.recurrence \in Recurring
    /\ Stored(cur.id) = cur
    /\ cur.start_time < cur.end_time
    /\ cur.updated_at = clock /\ cur.updated_at > cur.created_at
    /\ cur.error_message = None

(* C37: the end of an Active schedule writes the stored record with status
   Ended, updated_at now and no error_message and with every other field as
   it was, writes no other schedule and no item; the items change only in a
   step of an execution that applies a preset *)
C37_EndFrame ==
    [][ /\ IsEndedStep =>
              /\ items' = items /\ presets' = presets
              /\ Len(schedules') = Len(schedules)
              /\ \A i \in 1..Len(schedules) :
                    schedules[i].id # Popped.schedule.id => schedules'[i] = schedules[i]
              /\ lastlog' = "ended" =>
                    StoredIn(schedules', Popped.schedule.id)
                       = [Stored(Popped.schedule.id) EXCEPT !.status = "Ended",
                                                            !.updated_at = clock,
                                                            !.error_message = None]
              /\ lastlog' = "ended_update_failed" => schedules' = schedules
        /\ items' # items => (pc = "apply" /\ pc' = "reload") ]_vars

(* a schedule whose preset had been applied, and which was left Active, has
   ended: the availability its preset set is still in force *)
C37_Witness ==
    /\ lastlog = "ended" /\ pc = "reload"
    /\ Stored(cur.id).status = "Ended"
    /\ Stored(cur.id).updated_at = clock
    /\ cur.status = "Active" /\ cur.updated_at < clock
    /\ PresetApplied(items, cur.preset_id)
    /\ items # InitItems

----------------------------------------------------------------------------
(* A schedule whose window is over when it is dispatched *)

(* C38: a Pending schedule that no stored schedule overlaps and whose
   end_time is not after now is executed all the same when the storage
   calls succeed: the execution goes on to the preset, and when it has
   applied the preset to every item it writes the schedule as Ended with no
   error_message, start_time as it was and no next occurrence computed,
   whatever the recurrence; the schedule is not written before the items
   are *)
C38_PastWindowExecuted ==
    [][ /\ ( /\ IsExecuteStep /\ ~StorageFailure
             /\ Popped.schedule.end_time <= clock
             /\ OverlappingStored(Popped.schedule) = {} ) =>
              (lastlog' = "executing" /\ pc' = "apply")
        /\ (pc = "apply" /\ pc' = "reload" /\ cur.end_time <= clock) =>
              IF lastlog' = "executed"
              THEN /\ PresetApplied(items', cur.preset_id)
                   /\ cur' = [cur EXCEPT !.status = "Ended", !.updated_at = clock,
                                         !.error_message = None]
                   /\ StoredIn(schedules', cur.id) = cur'
                   /\ next_start' = None
              ELSE schedules' = schedules
        /\ ( /\ pc = "apply" /\ pc' = "reload" /\ cur.end_time <= clock
             /\ ~StorageFailure /\ FindPreset(presets, cur.preset_id) # None ) =>
              lastlog' = "executed" ]_vars

(* a daily schedule was loaded and dispatched when its window was over: its
   preset was applied and it was Ended without a message, although its next
   occurrence would not have been after end_time *)
C38_Witness ==
    /\ lastlog = "executed" /\ pc = "reload"
    /\ cur.recurrence = "Daily" /\ cur.status = "Ended"
    /\ cur.end_time <= cur.updated_at /\ cur.updated_at = clock
    /\ cur.start_time + Day <= cur.end_time
    /\ cur.error_message = None
    /\ next_start = None
    /\ Stored(cur.id) = cur
    /\ PresetApplied(items, cur.preset_id)
    /\ items # InitItems

----------------------------------------------------------------------------
(* Suspension between two dispatches of one schedule *)

(* C39: when the schedule that is dispatched is the one that was dispatched
   last, the loop has suspended since that dispatch *)
C39_SuspendsBetweenDispatches ==
    [][ (IsDispatchStep /\ cur.id = Popped.schedule.id) => slept ]_vars

============================================================================
